---- MODULE Spec2Model ----
(***************************************************************************)
(* The live poller of nflgame (nflgame/live.py) together with the parts of *)
(* nflgame/game.py it drives: Game construction (fetch + parse), game_over *)
(* and diff.  Times are seconds, as in the source.                         *)
(* After the poller come the functions of nflgame/game.py on their own:    *)
(* diff and max_player_stats, _json_drives, GameClock, FieldPosition and   *)
(* PossessionTime, each with a specification that applies it to arguments  *)
(* drawn from small sets.  Then come the addition of player statistics     *)
(* (nflgame/player.py, nflgame/seq.py), Game.__new__ on the text of a      *)
(* payload, the cache over a sequence of constructions, Drive.__init__     *)
(* with _json_plays, and the week numbers of nflgame/update_sched.py.      *)
(***************************************************************************)
EXTENDS Integers, Sequences, FiniteSets, TLC

(***************************************************************************)
(* Bounds of the model.                                                    *)
(***************************************************************************)
\* Cap of the counters that count deliveries to the callback.
MaxCount == 2
\* Cap of the age (in loop iterations) recorded for the retained snapshots.
MaxAge == 2

(***************************************************************************)
(* Program constants and the parameters of run().                          *)
(***************************************************************************)
MAX_GAME_TIME == 60 * 60 * 6

WEEK_INTERVAL == 60 * 60 * 12

active_interval == 15

inactive_interval == 900

(***************************************************************************)
(* The world the poller runs in: the schedule, the clock, the feeds.       *)
(***************************************************************************)
\* The event ids of the schedule, in the schedule's order.
EidSeq == <<"e1", "e2">>

Eids == {EidSeq[i] : i \in 1..Len(EidSeq)}

Ord(e) == CHOOSE i \in 1..Len(EidSeq) : EidSeq[i] = e

\* The instants at which the clock is read.  A sleep or a fetch may take
\* longer than asked, so that a later reading is any later instant.
Instants == {0, 900, 46800, 93600, 94500}

\* What the scorestrip XML reports as the current week: attributes w and t.
XmlFeeds == {[w |-> 2, t |-> "R"], [w |-> 18, t |-> "POST"]}

\* The quarter strings of the feed.  The poller tells a final quarter from
\* the others and nothing else.
Phases == {"Pregame", "Final"}

PhaseRank(q) == IF q = "Pregame" THEN 0 ELSE 1

\* The identities (play id, description) of the plays of an event.
Plays == {"p1"}

NoStop == -1

\* What one download of an event's payload can give: the ways it can fail,
\* a payload that lacks the event id, or a payload.
Outcomes ==
    [kind : {"unavailable", "timeout", "empty", "malformed", "noeid"}]
    \cup [kind : {"ok"}, qtr : Phases, plays : SUBSET Plays]

None == [eid |-> "none"]

Raised == [eid |-> "raised"]

VARIABLES
    now,              \* the clock
    sched,            \* the schedule: per event its start and its window
    feed,             \* per event the state of its GameCenter payload
    cache,            \* event ids whose payload is cached on disk
    stop,             \* run()'s stop parameter
    status,           \* "idle", "running", "stopped" (returned), "crashed"
    active,           \* run()'s local variable active
    cur,              \* _cur_week, _cur_season_phase
    last_week_check,  \* run()'s local variable last_week_check
    completed,        \* _completed
    last,             \* _last
    tick,             \* what the most recent loop iteration did
    hist,             \* what the callback has been given so far
    arg,              \* the arguments of a call of a function of game.py
    out               \* the value the call returned, or how it failed

\* The state of the live poller.
live == <<now, sched, feed, cache, stop, status, active, cur, last_week_check,
          completed, last, tick, hist>>

vars == <<live, arg, out>>

\* No call of a function of game.py is being looked at.
NoCall == [op |-> "none"]


(***************************************************************************)
(* nflgame/game.py: fetching and parsing one event, game_over, diff.       *)
(***************************************************************************)
\* GameClock.is_final: 'final' in self.qtr.lower().
is_final(qtr) == qtr \in {"Final", "final", "Final Overtime", "final overtime"}

\* _get_json_data(eid): the cached file if there is one, else the download.
\* An HTTP error and a timeout give None; a URLError is raised to Game.__new__.
get_json_data(eid, outcome, fd, ch) ==
    IF eid \in ch
    THEN [kind |-> "json", eids |-> {eid}, qtr |-> fd[eid].qtr, plays |-> fd[eid].plays]
    ELSE CASE outcome.kind = "ok" ->
                [kind |-> "json", eids |-> {eid}, qtr |-> outcome.qtr, plays |-> outcome.plays]
           [] outcome.kind = "noeid" -> [kind |-> "json", eids |-> {}]
           [] outcome.kind = "empty" -> [kind |-> "{}"]
           [] outcome.kind = "malformed" -> [kind |-> "garbage"]
           [] outcome.kind = "unavailable" -> [kind |-> "URLError"]
           [] OTHER -> [kind |-> "None"]

\* Game.__new__: None for a URLError, for no data, for '{}' and for text that
\* is not JSON (ValueError).  json.loads(rawData)[eid] on a payload without the
\* event id raises KeyError, which is not caught.
Game(eid, outcome, fd, ch) ==
    LET rawData == get_json_data(eid, outcome, fd, ch) IN
    CASE rawData.kind \in {"URLError", "None", "{}", "garbage"} -> None
      [] eid \notin rawData.eids -> Raised
      [] OTHER -> [eid |-> eid, qtr |-> rawData.qtr, plays |-> rawData.plays]

\* Game.game_over.
game_over(game) == is_final(game.qtr)

\* A cache that is written at every construction.
SaveAll(games, ch) == ch \cup {g.eid : g \in games}

\* Game.__init__, lines 307-309: a game that is over is saved to the cache.
SaveIfOver(games, ch) == ch \cup {g.eid : g \in {x \in games : game_over(x)}}

\* diff(before, after): the plays of after that are not plays of before.
diff(before, after) ==
    [eid |-> after.eid, before |-> before, after |-> after,
     plays |-> {p \in after.plays : p \notin before.plays}]

(***************************************************************************)
(* nflgame/live.py: the candidates of a tick.                              *)
(***************************************************************************)
\* _update_week_number: the window the scorestrip reports.
update_week_number(xml) ==
    IF xml.t = "P" THEN [week |-> xml.w, kind |-> "PRE"]
    ELSE IF xml.t = "POST" \/ xml.t = "PRO" THEN [week |-> xml.w - 17, kind |-> "POST"]
    ELSE [week |-> xml.w, kind |-> "REG"]

\* _games_in_week / _search_schedule: the events stored under (week, kind).
games_in_week(sc, window) ==
    {e \in Eids : sc[e].week = window.week /\ sc[e].kind = window.kind}

\* _game_is_active.
game_is_active(eid, sc, done, t, interval) ==
    IF sc[eid].start >= t
    THEN sc[eid].start - t <= interval
    ELSE eid \notin done

\* _active_games.
active_games(sc, window, done, t, interval) ==
    {e \in games_in_week(sc, window) : game_is_active(e, sc, done, t, interval)}

(***************************************************************************)
(* One pass over the candidates, as in run()'s first pass and _run_active: *)
(* the candidates are fetched in schedule order; an exception ends the     *)
(* pass, and the run, at the candidate that raised it.                     *)
(***************************************************************************)
RaisedAt(games, res, fd, ch) ==
    {Ord(e) : e \in {x \in games : Game(x, res[x], fd, ch) = Raised}}

\* The candidates on which Game() was called.
Fetched(games, res, fd, ch) ==
    LET r == RaisedAt(games, res, fd, ch) IN
    IF r = {} THEN games ELSE {e \in games : \E x \in r : \A y \in r : x <= y /\ Ord(e) <= x}

\* The games the pass obtained.
Obtained(games, res, fd, ch) ==
    {Game(e, res[e], fd, ch) : e \in Fetched(games, res, fd, ch)} \ {None, Raised}

(***************************************************************************)
(* The feed.  feed[e] is the payload of event e as last downloaded.  The   *)
(* payload moves on between downloads: the quarter advances and plays are  *)
(* added, none is removed, and a Final payload changes no more.            *)
(***************************************************************************)
MovedOn(old, new) ==
    /\ PhaseRank(new.qtr) >= PhaseRank(old.qtr)
    /\ old.plays \subseteq new.plays
    /\ is_final(old.qtr) => new.plays = old.plays

\* What the downloads of the candidates `games` can give.
Downloads(games, fd) ==
    {res \in [games -> Outcomes] :
        \A e \in games : res[e].kind = "ok" => MovedOn(fd[e], res[e])}

\* The feed after the pass.
Downloaded(games, res, fd, ch) ==
    [e \in Eids |->
        IF e \in Fetched(games, res, fd, ch) /\ e \notin ch /\ res[e].kind = "ok"
        THEN [qtr |-> res[e].qtr, plays |-> res[e].plays]
        ELSE fd[e]]


(***************************************************************************)
(* What is recorded about the run, for the properties below.               *)
(***************************************************************************)
Ids(games) == {g.eid : g \in games}

\* No snapshot of the event has been given to the callback yet.
NoFirst == [known |-> FALSE, plays |-> {}]

Inc(n, cap) == IF n < cap THEN n + 1 ELSE cap

\* The record of a loop iteration that did nothing of the kind recorded.
NoTick ==
    [kind |-> "none", at |-> 0, pre |-> {}, window |-> [week |-> 0, kind |-> "none"],
     mode |-> FALSE, games |-> {}, fetched |-> {}, failed |-> {}, calls |-> 0,
     act |-> {}, comp |-> {}, diffs |-> {}, age |-> 0, prev |-> {}, gap |-> FALSE]

\* hist after a callback with (act, comp, diffs).
Delivered(h, act, comp, diffs) ==
    [h EXCEPT
       !.delivered = [e \in Eids |->
            IF e \in Ids(comp) THEN Inc(h.delivered[e], MaxCount) ELSE h.delivered[e]],
       !.first = [e \in Eids |->
            IF h.first[e] = NoFirst /\ e \in Ids(act \cup comp)
            THEN [known |-> TRUE, plays |-> (CHOOSE g \in act \cup comp : g.eid = e).plays]
            ELSE h.first[e]],
       !.seen = [e \in Eids |->
            h.seen[e] \cup UNION {g.plays : g \in {x \in act \cup comp : x.eid = e}}],
       !.reported = [e \in Eids |-> [p \in Plays |->
            IF \E d \in diffs : d.eid = e /\ p \in d.plays
            THEN Inc(h.reported[e][p], MaxCount) ELSE h.reported[e][p]]],
       !.lastAge = 0,
       !.lastAct = act,
       !.gap = FALSE]

\* hist after a loop iteration that called no callback; `none` tells whether
\* it had no candidates.
Aged(h, none) == [h EXCEPT !.lastAge = Inc(h.lastAge, MaxAge), !.gap = h.gap \/ none]

(***************************************************************************)
(* The initial state: the module is loaded, run() has not been called.     *)
(***************************************************************************)
\* The schedules the poller is run with: both events in one week, starting
\* together or one after the other, or the two events in different weeks.
\* start is the scheduled start time (_game_datetime of the schedule entry),
\* (week, kind) the key under which the schedule stores the game.
Schedules ==
    {[e \in Eids |-> [start |-> IF e = "e1" THEN s1 ELSE s2,
                      week |-> IF e = "e1" THEN 2 ELSE w.week,
                      kind |-> IF e = "e1" THEN "REG" ELSE w.kind]] :
        s1 \in {900}, s2 \in {900, 1800},
        w \in {[week |-> 2, kind |-> "REG"], [week |-> 1, kind |-> "POST"]}}

\* stop is the deadline run() is started with.
LiveInit ==
    /\ now = 0
    /\ sched \in Schedules
    /\ feed = [e \in Eids |-> [qtr |-> "Pregame", plays |-> {}]]
    /\ cache = {}
    /\ stop \in {NoStop, 900}
    /\ status = "idle"
    /\ active = FALSE
    /\ cur = [week |-> 0, kind |-> "PRE"]
    /\ last_week_check = 0
    /\ completed = {}
    /\ last = {}
    /\ tick = NoTick
    /\ hist = [delivered |-> [e \in Eids |-> 0],
               first |-> [e \in Eids |-> NoFirst],
               seen |-> [e \in Eids |-> {}],
               reported |-> [e \in Eids |-> [p \in Plays |-> 0]],
               lastAge |-> 0,
               lastAct |-> {},
               gap |-> FALSE]

Init ==
    /\ LiveInit
    /\ arg = NoCall
    /\ out = NoCall

(***************************************************************************)
(* run(), lines 205-222: the week is read and the first pass adds the      *)
(* candidates that are already over to _completed.                         *)
(***************************************************************************)
RunStart ==
    /\ status = "idle"
    /\ \E xml \in XmlFeeds :
       \E res \in Downloads(active_games(sched, update_week_number(xml), completed,
                                         now, inactive_interval), feed) :
         LET window == update_week_number(xml)
             games == active_games(sched, window, completed, now, inactive_interval)
             got == Obtained(games, res, feed, cache)
             over == Ids({g \in got : game_over(g)})
         IN /\ cur' = window
            /\ last_week_check' = now
            /\ active' = FALSE
            /\ completed' = completed \cup over
            /\ cache' = SaveIfOver(got, cache)
            /\ status' = IF RaisedAt(games, res, feed, cache) = {}
                         THEN "running" ELSE "crashed"
            /\ tick' = [NoTick EXCEPT !.kind = "startup", !.at = now, !.window = window,
                          !.games = games,
                          !.fetched = Fetched(games, res, feed, cache),
                          !.failed = {e \in Fetched(games, res, feed, cache) :
                                         Game(e, res[e], feed, cache) \in {None, Raised}}]
            /\ feed' = Downloaded(games, res, feed, cache)
            /\ hist' = hist
    /\ UNCHANGED <<now, sched, stop, last, arg, out>>


(***************************************************************************)
(* run(), lines 224-241: one iteration of the control loop.                *)
(***************************************************************************)
\* Line 225: the deadline has passed.
\* A loop head that also stops at the stop instant itself.
StopDueAtDeadline(t, deadline) == deadline # NoStop /\ t >= deadline

StopDue(t, deadline) == deadline # NoStop /\ t > deadline

\* Line 228: the week is due to be read again.
WeekDue(t, checked) == t - checked > WEEK_INTERVAL

\* The clock after a wait of d seconds: the first instant not before t + d.
Later(t, d) == {i \in Instants : i >= t + d /\ \A j \in Instants : j >= t + d => i <= j}

\* Lines 225-226: run returns.
LoopStop ==
    /\ status = "running"
    /\ StopDue(now, stop)
    /\ status' = "stopped"
    /\ tick' = [NoTick EXCEPT !.kind = "stop", !.at = now, !.pre = completed,
                              !.window = cur, !.mode = active]
    /\ UNCHANGED <<now, sched, feed, cache, stop, active, cur, last_week_check,
                   completed, last, hist, arg, out>>

\* What line 229 can read: nothing unless the week is due.
XmlRead == IF WeekDue(now, last_week_check) THEN XmlFeeds ELSE {CHOOSE x \in XmlFeeds : TRUE}

\* The start of an iteration that goes on: lines 228-231.
LoopHead(xml) ==
    /\ status = "running"
    /\ ~StopDue(now, stop)
    /\ cur' = IF WeekDue(now, last_week_check) THEN update_week_number(xml) ELSE cur
    /\ last_week_check' = IF WeekDue(now, last_week_check) THEN now ELSE last_week_check

\* _run_inactive.
\* An inactive iteration that never leaves inactive mode.
run_inactive_stay(games) == TRUE

run_inactive(games) == games = {}

\* Lines 237-241: the iteration in the inactive mode.
LoopInactive ==
    \E xml \in XmlRead :
      /\ LoopHead(xml)
      /\ ~active
      /\ LET games == active_games(sched, cur', completed, now, inactive_interval) IN
           /\ active' = ~run_inactive(games)
           /\ now' \in Later(now, IF active' THEN 0 ELSE inactive_interval)
           /\ tick' = [NoTick EXCEPT !.kind = "inactive", !.at = now, !.pre = completed,
                                     !.window = cur', !.mode = FALSE, !.games = games]
      /\ hist' = Aged(hist, ~active')
      /\ UNCHANGED <<sched, feed, cache, stop, status, completed, last, arg, out>>

\* _run_active, lines 260-261: there are no candidates.
\* An active iteration without the early return on an empty candidate list.
NoEarlyReturn(games) == FALSE

NoCandidates(games) == games = {}

\* _run_active, line 288: _last after the tick.
\* A snapshot list that keeps the old snapshot of an event absent from the
\* new active list.
NewLastMerged(act, lst) == act \cup {l \in lst : l.eid \notin Ids(act)}

NewLast(act, lst) == act

\* _run_active, lines 263-277: the lists given to the callback.
\* A classification that puts every fetched event in the active list.
ActiveListAll(got) == got

ActiveList(got) == {g \in got : ~game_over(g)}

CompletedList(got) == {g \in got : game_over(g)}

\* _run_active, lines 281-286.
\* Diffs of the games still being played only.
DiffsOfActive(got, lst) ==
    {diff(pr[1], pr[2]) :
        pr \in {x \in lst \X {g \in got : ~game_over(g)} : x[1].eid = x[2].eid}}

Diffs(got, lst) ==
    {diff(pr[1], pr[2]) : pr \in {x \in lst \X got : x[1].eid = x[2].eid}}

\* run(), lines 232-236, with _run_active: the iteration in the active mode.
\* Without candidates _run_active returns False at once.  Otherwise the
\* candidates are fetched and classified (lines 263-277); if Game() raises,
\* the exception leaves _run_active and run() with _completed holding the
\* candidates classified so far and the callback not called; else the diffs
\* against _last are made, _last is replaced and the callback is called.
LoopActive ==
    \E xml \in XmlRead :
      /\ LoopHead(xml)
      /\ active
      /\ \E res \in Downloads(active_games(sched, cur', completed, now,
                                           inactive_interval), feed) :
         LET games == active_games(sched, cur', completed, now, inactive_interval)
             fetched == Fetched(games, res, feed, cache)
             got == Obtained(games, res, feed, cache)
             raised == RaisedAt(games, res, feed, cache) # {}
             act == ActiveList(got)
             comp == CompletedList(got)
             diffs == Diffs(got, last)
             seen == [NoTick EXCEPT !.kind = "active", !.at = now, !.pre = completed,
                        !.window = cur', !.mode = TRUE, !.games = games,
                        !.fetched = fetched,
                        !.failed = {e \in fetched :
                                       Game(e, res[e], feed, cache) \in {None, Raised}}]
         IN IF NoCandidates(games)
            THEN /\ active' = FALSE
                 /\ now' \in Later(now, 0)
                 /\ tick' = seen
                 /\ hist' = Aged(hist, TRUE)
                 /\ UNCHANGED <<feed, cache, status, completed, last>>
            ELSE /\ completed' = completed \cup Ids(comp)
                 /\ cache' = SaveIfOver(got, cache)
                 /\ feed' = Downloaded(games, res, feed, cache)
                 /\ IF raised
                    THEN /\ status' = "crashed"
                         /\ tick' = seen
                         /\ hist' = Aged(hist, FALSE)
                         /\ UNCHANGED <<now, active, last>>
                    ELSE /\ last' = NewLast(act, last)
                         /\ active' = TRUE
                         /\ now' \in Later(now, active_interval)
                         /\ tick' = [seen EXCEPT !.calls = 1, !.act = act, !.comp = comp,
                                        !.diffs = diffs,
                                        !.age = Inc(hist.lastAge, MaxAge),
                                        !.prev = hist.lastAct, !.gap = hist.gap]
                         /\ hist' = Delivered(hist, act, comp, diffs)
                         /\ UNCHANGED status
      /\ UNCHANGED <<sched, stop, arg, out>>

Next ==
    \/ RunStart
    \/ LoopStop
    \/ LoopInactive
    \/ LoopActive

Spec == Init /\ [][Next]_vars


(***************************************************************************)
(* Properties of the live poller.                                          *)
(***************************************************************************)
\* The record is of an iteration of the control loop that evaluated the
\* candidates.
IsTick == tick.kind \in {"active", "inactive"}

\* C1: every event id that a tick adds to the completed set is given to the
\* callback in the completed list of exactly one tick, and no event id is
\* given in the completed lists of two ticks.  (The claim says this of the
\* ids the start-up pass adds as well; they are left out here.)
C1_CompletedExactlyOnce ==
    \A e \in Eids :
      /\ hist.delivered[e] <= 1
      /\ (tick.kind = "active" /\ e \in completed \ tick.pre) => hist.delivered[e] = 1

\* C2: once an event is over and done with (it is in the completed set and
\* has started, so that it is no candidate any more), every play that was in
\* a snapshot of it given to the callback, and not in the first such
\* snapshot, has been in the play list of exactly one diff.
C2_EachChangeReportedOnce ==
    \A e \in Eids, p \in Plays :
      (/\ e \in completed
       /\ sched[e].start < now
       /\ hist.first[e].known
       /\ p \in hist.seen[e] \ hist.first[e].plays)
      => hist.reported[e][p] = 1

C4_CompletedNeverRevisited ==
    IsTick =>
      tick.pre \cap (tick.games \cup tick.fetched \cup Ids(tick.act \cup tick.comp)) = {}

\* C5: a tick in which the fetch of a candidate fails leaves the loop
\* running, fetches every candidate, and gives the callback exactly the
\* candidates whose fetch did not fail.
C5_FetchFailureNotFatal ==
    (tick.kind = "active" /\ tick.failed # {}) =>
      /\ status # "crashed"
      /\ tick.fetched = tick.games
      /\ tick.calls = 1
      /\ Ids(tick.act \cup tick.comp) = tick.games \ tick.failed

\* C6: the candidates of a tick are the events of the current window that
\* start within inactive_interval seconds, or have started less than
\* MAX_GAME_TIME seconds ago and are not in the completed set.
C6_CandidateIff ==
    IsTick =>
      tick.games =
        {e \in games_in_week(sched, tick.window) :
            \/ sched[e].start >= tick.at /\ sched[e].start - tick.at <= inactive_interval
            \/ /\ sched[e].start < tick.at
               /\ e \notin tick.pre
               /\ tick.at - sched[e].start < MAX_GAME_TIME}

\* C7: the loop starts in inactive mode, and after every tick it is in active
\* mode if and only if the tick found at least one candidate; a tick that
\* fails leaves the mode as it was.
C7_ModeFollowsCandidates ==
    /\ tick.kind \in {"none", "startup"} => ~active
    /\ (IsTick /\ status = "running") => (active <=> tick.games # {})
    /\ (IsTick /\ status = "crashed") => (active <=> tick.mode)

\* C7's case: each of the four changes of mode has been made by a tick.
C7_Witness ==
    /\ tick.kind = "active"
    /\ tick.games = {}
    /\ ~active
    /\ hist.first["e1"].known

\* C8: a tick calls the callback at most once, and only in active mode with
\* at least one candidate; a tick in inactive mode and a tick that finds no
\* candidate fetch nothing and do not call it, and the latter leaves the
\* loop in inactive mode.
C8_CallbackOnlyActiveWithCandidates ==
    /\ tick.calls \in {0, 1}
    /\ tick.calls = 1 => (tick.kind = "active" /\ tick.mode /\ tick.games # {})
    /\ (tick.kind = "active" /\ tick.games # {} /\ status = "running") => tick.calls = 1
    /\ (IsTick /\ (~tick.mode \/ tick.games = {})) =>
          (tick.calls = 0 /\ tick.fetched = {})
    /\ (IsTick /\ tick.games = {}) => ~active

\* C8's case: a tick in active mode has found no candidate after an earlier
\* tick called the callback.
C8_Witness ==
    /\ tick.kind = "active"
    /\ tick.mode
    /\ tick.games = {}
    /\ tick.calls = 0
    /\ hist.lastAct # {}

\* C9: the two lists of a callback are disjoint, the completed list holds
\* exactly the fetched events that are over, the active list exactly those
\* that are not, and together they are the candidates whose fetch succeeded.
C9_ListsPartitionFetched ==
    tick.calls = 1 =>
      /\ Ids(tick.act) \cap Ids(tick.comp) = {}
      /\ \A g \in tick.comp : game_over(g)
      /\ \A g \in tick.act : ~game_over(g)
      /\ Ids(tick.act) \cup Ids(tick.comp) = tick.fetched \ tick.failed
      /\ tick.fetched = tick.games

\* C9's case: one callback has been given an event in each list.
C9_Witness ==
    /\ tick.calls = 1
    /\ tick.act # {}
    /\ tick.comp # {}

\* C24: the diffs given to a callback hold exactly one diff for each event
\* that is in one of the two lists of the callback and had a snapshot in
\* _last when the tick began, made of these two snapshots, and none for any
\* other event; after the callback _last is the active list of the callback,
\* none of whose games is over.
C24_OneDiffPerRetainedEvent ==
    tick.calls = 1 =>
      /\ \A e \in Eids :
            Cardinality({d \in tick.diffs : d.eid = e}) =
               IF e \in Ids(tick.act \cup tick.comp) \cap Ids(tick.prev) THEN 1 ELSE 0
      /\ \A d \in tick.diffs :
            /\ d.before \in tick.prev /\ d.before.eid = d.eid
            /\ d.after \in tick.act \cup tick.comp /\ d.after.eid = d.eid
      /\ last = tick.act
      /\ \A g \in last : ~game_over(g)

\* C24's case: a callback has been given a diff of an event that is over
\* now, and an event seen for the first time, of which it has no diff.
C24_Witness ==
    /\ tick.calls = 1
    /\ \E d \in tick.diffs : d.after \in tick.comp
    /\ \E g \in tick.act : g.eid \notin Ids(tick.prev)
    /\ last # {}

\* C10: the loop stops only at a loop head reached strictly after the stop
\* instant, never when no stop instant is given; a tick runs only while the
\* clock is not past the stop instant; the iteration that stops fetches
\* nothing and does not call the callback; a stopped loop does nothing more.
C10_StopsOnlyPastDeadline ==
    /\ tick.kind = "stop" <=> status = "stopped"
    /\ tick.kind = "stop" =>
          /\ stop # NoStop
          /\ tick.at > stop
          /\ tick.calls = 0
          /\ tick.fetched = {}
          /\ now = tick.at
    /\ IsTick => (stop = NoStop \/ tick.at <= stop)

\* C10's case: the loop has stopped, after ticks that called the callback.
C10_Witness ==
    /\ status = "stopped"
    /\ hist.first["e1"].known
    /\ completed = {}


(***************************************************************************)
(* nflgame/game.py: the statistics of players, max_player_stats and diff.  *)
(* A record of statistics (the _stats dictionary of a player) is a         *)
(* function from the names of its statistics to their values; a table of   *)
(* players (an OrderedDict keyed by player id) is a function from the ids  *)
(* of its players to their records.                                        *)
(***************************************************************************)
PlayerIds == {"a", "b"}

StatNames == {"yds", "tds"}

StatValues == {1, 2}

\* sys.maxint, within the integers of the model checker.
MAX_INT == 2147483647

\* The records of statistics over a set of names.
StatsOver(names) == UNION {[d -> StatValues] : d \in SUBSET names}

\* dict.get(k, default).
Get(stats, k, default) == IF k \in DOMAIN stats THEN stats[k] ELSE default

Max2(x, y) == IF x >= y THEN x ELSE y

\* GamePlayerStats._overwrite_stats: every statistic given is set to the
\* value given, the other statistics of the player stay.
overwrite_stats(stats, new) ==
    [k \in DOMAIN stats \cup DOMAIN new |-> IF k \in DOMAIN new THEN new[k] ELSE stats[k]]

\* Game.max_player_stats, lines 392-395: maxstats of a player of both tables.
game_max(pgame, pplay) ==
    [stat \in DOMAIN pgame |-> Max2(pgame[stat], Get(pplay, stat, -MAX_INT))]

\* Game.max_player_stats: the table is made of the players of the plays
\* (lines 376-385), each then combined with the statistics of the game of
\* the same player, if there are any (lines 387-398).
max_player_stats(game_players, play_players) ==
    [p \in DOMAIN play_players |->
        IF p \in DOMAIN game_players
        THEN overwrite_stats(play_players[p], game_max(game_players[p], play_players[p]))
        ELSE play_players[p]]

\* GamePlayerStats.__sub__: per statistic of self the value less the value
\* other has for it (0 if it has none); results that are not positive are
\* dropped.
sub_stats(self, other) ==
    LET d(k) == self[k] - Get(other, k, 0)
    IN  [k \in {x \in DOMAIN self : d(x) > 0} |-> d(k)]

\* GamePlayerStats.__sub__ returns None when nothing is left.
player_sub(self, other) ==
    LET r == sub_stats(self, other)
    IN  IF DOMAIN r = {} THEN None ELSE r

\* An equality of plays that looks at the play id alone.
PlayEqId(p, q) == p.playid = q.playid

\* Play.__eq__.
PlayEq(p, q) == p.playid = q.playid /\ p.desc = q.desc

\* A search of a list of plays that passes over its first play.
PlayInAfterFirst(play, plays) == \E i \in 2..Len(plays) : PlayEq(plays[i], play)

\* `play in plays` of a list of plays.
PlayIn(play, plays) == \E i \in 1..Len(plays) : PlayEq(plays[i], play)

\* diff, lines 431-436.
RECURSIVE DiffPlays(_, _)
DiffPlays(before_plays, after_plays) ==
    IF after_plays = <<>> THEN <<>>
    ELSE LET play == Head(after_plays)
             rest == DiffPlays(before_plays, Tail(after_plays))
         IN  IF ~PlayIn(play, before_plays) THEN <<play>> \o rest ELSE rest


\* diff, lines 447-450: has_before.
HasBefore(aplayer, before_players) == aplayer \in DOMAIN before_players

\* A diff of players that takes the statistics of after off those of before.
DiffPlayersSwapped(before_players, after_players) ==
    LET left == {p \in DOMAIN after_players \cap DOMAIN before_players :
                    player_sub(before_players[p], after_players[p]) # None}
        new  == DOMAIN after_players \ DOMAIN before_players
    IN  [p \in left \cup new |->
            IF p \in new THEN after_players[p]
            ELSE player_sub(before_players[p], after_players[p])]

\* A diff of players without the players the before table does not have.
DiffPlayersKnownOnly(before_players, after_players) ==
    LET left == {p \in DOMAIN after_players \cap DOMAIN before_players :
                    player_sub(after_players[p], before_players[p]) # None}
    IN  [p \in left |-> player_sub(after_players[p], before_players[p])]

\* diff, lines 443-456: the players of the after table with what is left of
\* their statistics after those of the before table are taken off, without
\* the players for whom nothing is left.
DiffPlayers(before_players, after_players) ==
    LET left == {p \in DOMAIN after_players :
                    /\ HasBefore(p, before_players)
                    /\ player_sub(after_players[p], before_players[p]) # None}
        new  == {p \in DOMAIN after_players : ~HasBefore(p, before_players)}
    IN  [p \in left \cup new |->
            IF p \in new THEN after_players[p]
            ELSE player_sub(after_players[p], before_players[p])]

\* diff, lines 419-458, of two games given by their plays (drives.plays()),
\* their table of players of the game (players) and their table of players
\* of the plays (drives.plays().players()).
GameDiff(before, after) ==
    [op |-> "diff",
     plays |-> DiffPlays(before.plays, after.plays),
     players |-> DiffPlayers(max_player_stats(before.players, before.play_players),
                             max_player_stats(after.players, after.play_players))]

(***************************************************************************)
(* The games diff is applied to.                                           *)
(***************************************************************************)
\* Plays: the description of a play changes when the play is reversed, and
\* the down is one of the things a play holds besides.
PlayRecords == [playid : {"1", "2"}, desc : {"run", "run REVERSED"}, down : {1, 2}]

\* The lists of at most two plays.
PlayLists == {<<>>} \cup {<<p>> : p \in PlayRecords}
                    \cup {<<p, q>> : p, q \in PlayRecords}

\* Tables of players: player "a" has any statistics over the names given or
\* is not in the table, another player has one statistic or is not in it.
TablesOver(players, names) ==
    {[p \in ids |-> IF p = "a" THEN sa ELSE [yds |-> 1]] :
        ids \in SUBSET players, sa \in StatsOver(names)}

\* The tables of the players of a game.
GameTables == TablesOver({"a"}, {"yds"})

\* The tables of the players of the plays of a game.
PlayTables == TablesOver(PlayerIds, StatNames)

NoTable == [p \in {} |-> None]

\* The live poller is not running.
LiveOff == LiveInit /\ stop = NoStop /\ \A e \in Eids : sched[e].start = 900 /\ sched[e].kind = "REG"

\* A function is about to be called with arguments of args.
InitCall(args) ==
    /\ LiveOff
    /\ arg \in args
    /\ out = NoCall

\* after - before (Game.__sub__, line 412-413).
CallDiff ==
    /\ arg.op = "diff"
    /\ out = NoCall
    /\ out' = GameDiff(arg.before, arg.after)
    /\ UNCHANGED <<live, arg>>

\* Pairs of games that differ in their plays, pairs that differ in the
\* statistics of their players, and pairs of a game with itself.
SpecDiff ==
    InitCall(
        {[op |-> "diff",
          before |-> [plays |-> b, players |-> NoTable, play_players |-> NoTable],
          after  |-> [plays |-> a, players |-> NoTable, play_players |-> NoTable]] :
            b, a \in PlayLists}
        \cup
        {[op |-> "diff",
          before |-> [plays |-> <<>>, players |-> gb, play_players |-> pb],
          after  |-> [plays |-> <<>>, players |-> ga, play_players |-> pa]] :
            gb, ga \in GameTables, pb, pa \in PlayTables}
        \cup
        {[op |-> "diff", before |-> x, after |-> x] :
            x \in [plays : {l \in PlayLists : Len(l) <= 1},
                   players : GameTables, play_players : PlayTables]})
    /\ [][CallDiff]_vars


(***************************************************************************)
(* Properties of diff.                                                     *)
(***************************************************************************)
\* The i-th play of a list has the play id and the description of no play
\* of another list.
NotAmong(plays, i, others) ==
    \A j \in 1..Len(others) :
        ~(plays[i].playid = others[j].playid /\ plays[i].desc = others[j].desc)

\* The n-th smallest number of a set of numbers.
Nth(S, n) == CHOOSE i \in S : Cardinality({j \in S : j < i}) = n - 1

\* C11: the diff of a game with itself has no plays and no players.
C11_DiffOfSameIsEmpty ==
    (out.op = "diff" /\ arg.before = arg.after) =>
        (out.plays = <<>> /\ DOMAIN out.players = {})

\* C11's case: a game that has a play and a player with statistics of the
\* plays and of the game has been diffed with itself.
C11_Witness ==
    /\ out.op = "diff"
    /\ arg.before = arg.after
    /\ arg.after.plays # <<>>
    /\ "a" \in DOMAIN arg.after.players
    /\ "a" \in DOMAIN arg.after.play_players
    /\ DOMAIN arg.after.play_players["a"] = StatNames

\* C12: the plays of diff(before, after) are the plays of after, in the
\* order of after, whose play id and description are those of no play of
\* before.
C12_PlaysAreTheNewPlaysInOrder ==
    out.op = "diff" =>
        LET after == arg.after.plays
            kept == {i \in 1..Len(after) : NotAmong(after, i, arg.before.plays)}
        IN  /\ Len(out.plays) = Cardinality(kept)
            /\ \A n \in 1..Len(out.plays) : out.plays[n] = after[Nth(kept, n)]

\* C12's case: of two plays of after, the first is in before with the same
\* play id and description but another down, and is left out; the second
\* has the play id of a play of before with another description, and is in
\* the diff.
C12_Witness ==
    /\ out.op = "diff"
    /\ Len(arg.after.plays) = 2
    /\ Len(arg.before.plays) = 2
    /\ ~NotAmong(arg.after.plays, 1, arg.before.plays)
    /\ \A j \in 1..2 : arg.after.plays[1] # arg.before.plays[j]
    /\ arg.after.plays[2].playid = arg.before.plays[2].playid
    /\ out.plays = <<arg.after.plays[2]>>

\* C13: a player is in the players of diff(before, after) if and only if the
\* player is in the max-merged table of after and either not in that of
\* before, and then with the record of after, or in that of before with a
\* subtraction that leaves something, and then with what it leaves.
C13_PlayersOfDiff ==
    out.op = "diff" =>
        LET A == max_player_stats(arg.after.players, arg.after.play_players)
            B == max_player_stats(arg.before.players, arg.before.play_players)
        IN  /\ DOMAIN out.players \subseteq DOMAIN A
            /\ \A p \in DOMAIN A \ DOMAIN B :
                  p \in DOMAIN out.players /\ out.players[p] = A[p]
            /\ \A p \in DOMAIN A \cap DOMAIN B :
                  IF DOMAIN sub_stats(A[p], B[p]) = {}
                  THEN p \notin DOMAIN out.players
                  ELSE p \in DOMAIN out.players /\ out.players[p] = sub_stats(A[p], B[p])

\* C13's case: one player is in the diff with the rest of a subtraction,
\* the other with the whole record of after.
C13_Witness ==
    /\ out.op = "diff"
    /\ "a" \in DOMAIN arg.before.play_players
    /\ "b" \notin DOMAIN arg.before.play_players
    /\ DOMAIN out.players = {"a", "b"}
    /\ out.players["a"] # max_player_stats(arg.after.players, arg.after.play_players)["a"]


\* C14: for a player of both max-merged tables, the record in the diff holds
\* exactly the statistics k of the after record with after[k] less before[k]
\* (0 if before has none) positive, each with that difference: statistics
\* only before has are ignored, and no value of the record is zero or
\* negative.
C14_SubtractKeepsPositive ==
    out.op = "diff" =>
        LET A == max_player_stats(arg.after.players, arg.after.play_players)
            B == max_player_stats(arg.before.players, arg.before.play_players)
            less(p, k) == A[p][k] - (IF k \in DOMAIN B[p] THEN B[p][k] ELSE 0)
            gained(p) == {k \in DOMAIN A[p] : less(p, k) > 0}
        IN  \A p \in DOMAIN A \cap DOMAIN B :
              /\ p \in DOMAIN out.players <=> gained(p) # {}
              /\ p \in DOMAIN out.players =>
                    /\ DOMAIN out.players[p] = gained(p)
                    /\ \A k \in gained(p) :
                          out.players[p][k] = less(p, k) /\ out.players[p][k] > 0

\* C14's case: of the two statistics of a player one has gone down and the
\* other up, and before has a statistic that after has not.
C14_Witness ==
    /\ out.op = "diff"
    /\ \E p \in DOMAIN arg.after.play_players \cap DOMAIN arg.before.play_players :
          /\ p \notin DOMAIN arg.after.players
          /\ p \notin DOMAIN arg.before.players
          /\ arg.after.play_players[p] = [yds |-> 1, tds |-> 2]
          /\ arg.before.play_players[p] = [yds |-> 2, tds |-> 1]
          /\ out.players[p] = [tds |-> 1]

(***************************************************************************)
(* Game.max_player_stats applied to the two tables of a game.              *)
(***************************************************************************)
CallMax ==
    /\ arg.op = "max"
    /\ out = NoCall
    /\ out' = [op |-> "max", table |-> max_player_stats(arg.players, arg.play_players)]
    /\ UNCHANGED <<live, arg>>

SpecMax ==
    InitCall(
        [op : {"max"},
         players : TablesOver(PlayerIds, StatNames),
         play_players : PlayTables])
    /\ [][CallMax]_vars

\* The values the two tables have for a statistic of a player.
ValuesOf(p, k) ==
    {t[p][k] : t \in {x \in {arg.players, arg.play_players} :
                         p \in DOMAIN x /\ k \in DOMAIN x[p]}}

\* C15: the max-merged table has a record for every player of either table,
\* the record has each statistic that the player has in either table, and
\* its value is the maximum of the values the tables have for it.
C15_MaxMergeOfBothSources ==
    out.op = "max" =>
        \A p \in DOMAIN arg.players \cup DOMAIN arg.play_players :
          /\ p \in DOMAIN out.table
          /\ \A k \in StatNames :
                IF ValuesOf(p, k) = {} THEN k \notin DOMAIN out.table[p]
                ELSE /\ k \in DOMAIN out.table[p]
                     /\ out.table[p][k] \in ValuesOf(p, k)
                     /\ \A v \in ValuesOf(p, k) : out.table[p][k] >= v


\* C28: a player of the table of the game is in the max-merged table of the
\* game also when the plays have no statistics of the player, and when the
\* plays of neither game have any and a statistic of the player is greater
\* in the table of the later game, the player is in the players of the diff.
C28_GameOnlyPlayerInMaxAndDiff ==
    out.op = "diff" =>
        \A p \in DOMAIN arg.after.players :
          /\ p \in DOMAIN max_player_stats(arg.after.players, arg.after.play_players)
          /\ (/\ p \in DOMAIN arg.before.players
              /\ p \notin DOMAIN arg.before.play_players \cup DOMAIN arg.after.play_players
              /\ \E k \in DOMAIN arg.after.players[p] :
                    arg.after.players[p][k] > Get(arg.before.players[p], k, 0))
             => p \in DOMAIN out.players

(***************************************************************************)
(* nflgame/game.py: _json_drives and the part of Drive.__init__ that       *)
(* decides whether a drive is valid.  The 'drives' entry of the payload is *)
(* a function from its keys (strings) to the data of the drives.           *)
(***************************************************************************)
\* int(drive_num) succeeds.
IsNumber(key) == key \in {"1", "2", "10"}

\* int(drive_num).
IntOf(key) == CASE key = "1" -> 1 [] key = "2" -> 2 [] key = "10" -> 10

\* str(drive_num).
StrOf(n) == CASE n = 1 -> "1" [] n = 2 -> "2" [] n = 10 -> "10"

\* sorted(drive_nums).
RECURSIVE Sorted(_)
Sorted(nums) ==
    IF nums = {} THEN <<>>
    ELSE LET least == CHOOSE n \in nums : \A x \in nums : n <= x
         IN  <<least>> \o Sorted(nums \ {least})

\* Drive.__init__, lines 471-473: the drive gets its attributes unless it
\* has no plays.
DriveIsValid(data) == "plays" \in DOMAIN data /\ data.plays # {}

\* _json_drives, lines 674-678: the drives of the numbers from the i-th on.
RECURSIVE DrivesFrom(_, _, _)
DrivesFrom(nums, i, data) ==
    IF i > Len(nums) THEN <<>>
    ELSE LET d == data[StrOf(nums[i])]
             rest == DrivesFrom(nums, i + 1, data)
         IN  IF DriveIsValid(d)
             THEN <<[drive_num |-> i, key |-> nums[i], plays |-> d.plays]>> \o rest
             ELSE rest

\* _json_drives.
json_drives(data) ==
    LET drive_nums == {IntOf(k) : k \in {x \in DOMAIN data : IsNumber(x)}}
    IN  DrivesFrom(Sorted(drive_nums), 1, data)

\* Game.__getattr__('drives'), lines 406-409.
CallDrives ==
    /\ arg.op = "drives"
    /\ out = NoCall
    /\ out' = [op |-> "drives", drives |-> json_drives(arg.data)]
    /\ UNCHANGED <<live, arg>>

\* The 'drives' entries: their keys are numbers of drives and 'crntdrv', the
\* data of a drive is without a 'plays' entry or with the ids of its plays.
SpecDrives ==
    InitCall(
        {[op |-> "drives", data |-> d] :
            d \in UNION {[keys -> {[posteam |-> "NE"]}
                                   \cup [posteam : {"NE"}, plays : SUBSET {"50", "51"}]] :
                         keys \in SUBSET {"1", "2", "10", "crntdrv"}}})
    /\ [][CallDrives]_vars

\* C16: the drives of a parsed game are in ascending order of their numbers,
\* a drive with the id of a play of a drive of a smaller number is not among
\* them, and no play id is in two of them.
C16_NoPlayIdInTwoDrives ==
    out.op = "drives" =>
        /\ \A i, j \in 1..Len(out.drives) :
              i < j => out.drives[i].key < out.drives[j].key
        /\ \A i \in 1..Len(out.drives) :
              \A k \in {x \in DOMAIN arg.data : IsNumber(x)} :
                 (IntOf(k) < out.drives[i].key /\ "plays" \in DOMAIN arg.data[k])
                    => arg.data[k].plays \cap out.drives[i].plays = {}
        /\ \A i, j \in 1..Len(out.drives) :
              i # j => out.drives[i].plays \cap out.drives[j].plays = {}


(***************************************************************************)
(* nflgame/game.py: GameClock.                                             *)
(***************************************************************************)
\* The values of the qtr field of the feed, one of them unknown to GameClock.
Quarters == {"Pregame", "1", "2", "Halftime", "3", "4", "5", "Final",
             "final overtime", "Suspended"}

\* The values of the clock field of the feed: times, an empty string and null.
Clocks == {"15:00", "10:00", "9:59", "0:05", "", "null"}

\* map(int, self.clock.split(':')), lines 152-157: <<0, 0>> when it fails.
ClockTime(clock) ==
    CASE clock = "15:00" -> <<15, 0>>
      [] clock = "10:00" -> <<10, 0>>
      [] clock = "9:59" -> <<9, 59>>
      [] clock = "0:05" -> <<0, 5>>
      [] OTHER -> <<0, 0>>

\* int(self.qtr) succeeds.
IsQuarterNumber(qtr) == qtr \in {"1", "2", "3", "4", "5"}

\* int(self.qtr).
QuarterNumber(qtr) ==
    CASE qtr = "1" -> 1 [] qtr = "2" -> 2 [] qtr = "3" -> 3 [] qtr = "4" -> 4
      [] qtr = "5" -> 5

\* The value __qtr has when no statement of __init__ sets it.
Unset == -1

\* A quarter number without the place made for halftime.
QuarterOfNumberOnly(qtr) ==
    IF IsQuarterNumber(qtr) THEN QuarterNumber(qtr)
    ELSE IF qtr = "Pregame" THEN 0
    ELSE IF qtr = "Halftime" THEN 3
    ELSE IF is_final(qtr) THEN MAX_INT
    ELSE Unset

\* GameClock.__init__, lines 158-170: __qtr.
Quarter(qtr) ==
    IF IsQuarterNumber(qtr)
    THEN IF QuarterNumber(qtr) >= 3 THEN QuarterNumber(qtr) + 1 ELSE QuarterNumber(qtr)
    ELSE IF qtr = "Pregame" THEN 0
    ELSE IF qtr = "Halftime" THEN 3
    ELSE IF is_final(qtr) THEN MAX_INT
    ELSE Unset

\* GameClock(qtr, clock).
GameClock(qtr, clock) ==
    [qtr |-> IF Quarter(qtr) = Unset THEN "Pregame" ELSE qtr,
     quarter |-> Quarter(qtr),
     minutes |-> ClockTime(clock)[1],
     seconds |-> ClockTime(clock)[2]]

\* cmp of two integers.
cmp(x, y) == IF x < y THEN -1 ELSE IF x > y THEN 1 ELSE 0

\* GameClock.__cmp__, lines 195-200; reading a __qtr that was never set
\* raises AttributeError.
GameClockCmp(self, other) ==
    IF self.quarter = Unset \/ other.quarter = Unset THEN "AttributeError"
    ELSE IF self.quarter # other.quarter THEN cmp(self.quarter, other.quarter)
    ELSE IF self.minutes # other.minutes THEN cmp(other.minutes, self.minutes)
    ELSE cmp(other.seconds, self.seconds)

\* cmp(GameClock(...), GameClock(...)), as in Drive.__init__, line 516.
CallClockCmp ==
    /\ arg.op = "cmp"
    /\ out = NoCall
    /\ out' = [op |-> "cmp",
               value |-> GameClockCmp(GameClock(arg.a.qtr, arg.a.clock),
                                      GameClock(arg.b.qtr, arg.b.clock))]
    /\ UNCHANGED <<live, arg>>

SpecClock ==
    InitCall(
        [op : {"cmp"}, a : [qtr : Quarters, clock : Clocks],
                       b : [qtr : Quarters, clock : Clocks]])
    /\ [][CallClockCmp]_vars

\* The place of a phase in Pregame < Q1 < Q2 < Halftime < Q3 < Q4 <
\* Overtime < Final.
PhaseOrder == <<"Pregame", "1", "2", "Halftime", "3", "4", "5", "Final">>

PhasePlace(qtr) ==
    IF qtr = "final overtime" THEN Len(PhaseOrder)
    ELSE CHOOSE i \in 1..Len(PhaseOrder) : PhaseOrder[i] = qtr

\* One clock is earlier than another: an earlier phase, or the same phase
\* with more minutes left, or with the same minutes and more seconds left.
Earlier(a, b) ==
    \/ PhasePlace(a.qtr) < PhasePlace(b.qtr)
    \/ /\ PhasePlace(a.qtr) = PhasePlace(b.qtr)
       /\ \/ ClockTime(a.clock)[1] > ClockTime(b.clock)[1]
          \/ /\ ClockTime(a.clock)[1] = ClockTime(b.clock)[1]
             /\ ClockTime(a.clock)[2] > ClockTime(b.clock)[2]

\* C17: the comparison of two clocks orders them by phase, Pregame < Q1 < Q2
\* < Halftime < Q3 < Q4 < Overtime < Final, and within a phase by the time
\* left, less time being later; a final clock is greater than every clock
\* that is not final.
C17_ClockOrder ==
    (out.op = "cmp" /\ arg.a.qtr # "Suspended" /\ arg.b.qtr # "Suspended") =>
        /\ out.value \in {-1, 0, 1}
        /\ out.value = -1 <=> Earlier(arg.a, arg.b)
        /\ out.value = 1 <=> Earlier(arg.b, arg.a)
        /\ (is_final(arg.a.qtr) /\ ~is_final(arg.b.qtr)) => out.value = 1

\* C17's case: quarter "4" with clock "10:00" has been compared with quarter
\* "3" with clock "10:00" and found later.
C17_Witness ==
    /\ out.op = "cmp"
    /\ arg.a = [qtr |-> "4", clock |-> "10:00"]
    /\ arg.b = [qtr |-> "3", clock |-> "10:00"]
    /\ out.value = 1


(***************************************************************************)
(* nflgame/game.py: FieldPosition.  A text is the sequence of its words    *)
(* (what split() returns); a word is made of digits or is not.             *)
(***************************************************************************)
\* A string, by its words.
Text(words) == [text |-> words]

\* An integer as a value that may also be None.
Int_(n) == [int |-> n]

\* isinstance(v, int).
IsInt(v) == "int" \in DOMAIN v
\* A word that is no number, and the word of the digits of a number.
Word(w) == [word |-> w]

Digits(n) == [digits |-> n]

Teams == {"NE", "NYG"}

\* The yard lines of valid texts, "50" and "TEAM NN".
ValidYardlines ==
    {Text(<<Digits(50)>>)}
    \cup {Text(<<Word(t), Digits(n)>>) : t \in Teams, n \in {0, 1, 25, 45, 50}}

\* '%d' % n.
FormatInt(n) == Digits(n)

\* int(yd_str); ValueError unless the word is made of digits.
ParsesAsInt(w) == "digits" \in DOMAIN w

ParseInt(w) == w.digits

\* FieldPosition.__new__ and __init__, lines 51-75.
FieldPosition(pos_team, yardline, offset) ==
    IF yardline \in {None, Text(<<>>)} /\ offset = None THEN None
    ELSE IF IsInt(offset) THEN [offset |-> offset.int]
    ELSE IF yardline = Text(<<Digits(50)>>) THEN [offset |-> 0]
    ELSE IF Len(yardline.text) # 2 \/ ~ParsesAsInt(yardline.text[2])
         THEN [error |-> "ValueError"]
    ELSE IF yardline.text[1] = Word(pos_team)
         THEN [offset |-> -(50 - ParseInt(yardline.text[2]))]
         ELSE [offset |-> 50 - ParseInt(yardline.text[2])]

IsPosition(fp) == "offset" \in DOMAIN fp

\* A format that prints the offset where the yard line is due.
FieldStrOfOffset(fp) ==
    IF fp.offset > 0 THEN Text(<<Word("OPP"), FormatInt(fp.offset)>>)
    ELSE IF fp.offset < 0 THEN Text(<<Word("OWN"), FormatInt(-fp.offset)>>)
    ELSE Text(<<Word("MIDFIELD")>>)

\* FieldPosition.__str__, lines 82-88.
FieldStr(fp) ==
    IF fp.offset > 0 THEN Text(<<Word("OPP"), FormatInt(50 - fp.offset)>>)
    ELSE IF fp.offset < 0 THEN Text(<<Word("OWN"), FormatInt(50 + fp.offset)>>)
    ELSE Text(<<Word("MIDFIELD")>>)

Min2(x, y) == IF x <= y THEN x ELSE y

\* FieldPosition.add_yards, lines 90-96.
add_yards(self, yards) ==
    FieldPosition(None, None, Int_(Max2(-50, Min2(50, self.offset + yards))))

\* FieldPosition(pos_team, yardline) or FieldPosition(offset=...).
NewField ==
    /\ arg.op = "field"
    /\ out = NoCall
    /\ out' = [op |-> "field", fp |-> FieldPosition(arg.pos_team, arg.yardline, arg.offset)]
    /\ UNCHANGED <<live, arg>>

\* fp.add_yards(yards), on any position made before.
AddYards ==
    /\ out.op \in {"field", "add_yards"}
    /\ IsPosition(out.fp)
    /\ \E yards \in {-100, -7, 1, 100} :
          out' = [op |-> "add_yards", self |-> out.fp, yards |-> yards,
                  after |-> out.fp, fp |-> add_yards(out.fp, yards)]
    /\ UNCHANGED <<live, arg>>

\* FieldPosition(pos_team, str(fp)), on a position made from a yard line.
Reparse ==
    /\ out.op = "field"
    /\ IsPosition(out.fp)
    /\ arg.yardline # None
    /\ out' = [op |-> "reparse", first |-> out.fp, text |-> FieldStr(out.fp),
               fp |-> FieldPosition(arg.pos_team, FieldStr(out.fp), None)]
    /\ UNCHANGED <<live, arg>>

\* Positions made of a yard line, the empty text among them, and positions
\* made of an offset.
SpecField ==
    InitCall(
        [op : {"field"}, pos_team : Teams, yardline : ValidYardlines \cup {Text(<<>>)},
         offset : {None}]
        \cup [op : {"field"}, pos_team : Teams, yardline : {None},
              offset : {Int_(n) : n \in {-51, -50, 0, 50, 77}}])
    /\ [][NewField \/ AddYards \/ Reparse]_vars

\* C18: every field position, made from a team and a yard line, from an
\* offset, or by add_yards, has an offset from -50 to 50; add_yards returns
\* the sum brought into that range and leaves the position it is called on
\* as it was.
C18_OffsetInRange ==
    /\ (out.op \in {"field", "add_yards"} /\ IsPosition(out.fp)) =>
          (out.fp.offset >= -50 /\ out.fp.offset <= 50)
    /\ out.op = "add_yards" =>
          /\ out.fp.offset = Max2(-50, Min2(50, out.self.offset + out.yards))
          /\ out.after = out.self
          /\ out.self.offset >= -50 /\ out.self.offset <= 50

\* C19 as stated: the position made from the text of a position that was
\* made from a valid yard line has the offset of that position.
C19_RoundTrip ==
    (out.op = "reparse" /\ arg.yardline \in ValidYardlines) =>
        (IsPosition(out.fp) /\ out.fp.offset = out.first.offset)

\* C19 as amended: the position made from the text of a position that was
\* made from a valid yard line has the offset of that position if the
\* offset is positive and the opposite offset if it is negative; the text of
\* midfield makes no position, its parsing fails.
C19_RoundTripInOpponentTerritory ==
    (out.op = "reparse" /\ arg.yardline \in ValidYardlines) =>
        /\ out.first.offset > 0 => (IsPosition(out.fp) /\ out.fp.offset = out.first.offset)
        /\ out.first.offset < 0 => (IsPosition(out.fp) /\ out.fp.offset = -out.first.offset)
        /\ out.first.offset = 0 => out.fp = [error |-> "ValueError"]

\* C19's case: the text of a position in the territory of the opponent has
\* been parsed again.
C19_Witness ==
    /\ out.op = "reparse"
    /\ arg.yardline = Text(<<Word("NYG"), Digits(1)>>)
    /\ arg.pos_team = "NE"
    /\ out.first.offset = 49
    /\ out.text = Text(<<Word("OPP"), Digits(1)>>)
    /\ out.fp.offset = 49


(***************************************************************************)
(* nflgame/game.py: PossessionTime.  The text of a clock is given by the   *)
(* parts split(':') returns.                                               *)
(***************************************************************************)
\* The texts of clocks: minutes and seconds (such as "0:45", "12:34" and
\* "1:70"), the empty text and a text without a colon.
PossClocks ==
    {Text(<<Digits(m), Digits(sec)>>) :
        m \in {0, 1, 2, 12}, sec \in {0, 10, 34, 45, 70}}
    \cup {Text(<<Word("")>>), Text(<<Digits(2)>>)}

\* '%.2d:%.2d' % (minutes, seconds).
FormatClock(minutes, seconds) == Text(<<FormatInt(minutes), FormatInt(seconds)>>)

\* PossessionTime.__init__, lines 103-109.
PossessionTime(clock) ==
    IF Len(clock.text) = 2 /\ ParsesAsInt(clock.text[1]) /\ ParsesAsInt(clock.text[2])
    THEN [clock |-> clock, minutes |-> ParseInt(clock.text[1]),
          seconds |-> ParseInt(clock.text[2])]
    ELSE [clock |-> clock, minutes |-> 0, seconds |-> 0]

\* PossessionTime.total_seconds, lines 111-115.
total_seconds(self) == self.seconds + self.minutes * 60

\* PossessionTime.__cmp__, lines 117-119: cmp of the tuples (minutes, seconds).
PossessionCmp(self, other) ==
    IF self.minutes # other.minutes THEN cmp(self.minutes, other.minutes)
    ELSE cmp(self.seconds, other.seconds)

\* The time of a number of seconds, lines 122-127 and 131-136; / and % of
\* Python round towards minus infinity.
OfSeconds(total) ==
    [clock |-> FormatClock(total \div 60, total % 60),
     minutes |-> total \div 60,
     seconds |-> total % 60]

\* PossessionTime.__add__, lines 121-127.
PossessionAdd(self, other) == OfSeconds(total_seconds(self) + total_seconds(other))

\* PossessionTime.__sub__, lines 129-136.
PossessionSub(self, other) ==
    IF ~(PossessionCmp(self, other) >= 0) THEN [error |-> "AssertionError"]
    ELSE OfSeconds(total_seconds(self) - total_seconds(other))

IsTime(t) == "minutes" \in DOMAIN t

\* PossessionTime(a), PossessionTime(b).
ParsePoss ==
    /\ arg.op = "pos_time"
    /\ out = NoCall
    /\ out' = [op |-> "parse", self |-> PossessionTime(arg.a),
               other |-> PossessionTime(arg.b), result |-> PossessionTime(arg.a)]
    /\ UNCHANGED <<live, arg>>

\* result + other, on a time parsed.
AddPoss ==
    /\ out.op = "parse"
    /\ out' = [op |-> "add", self |-> out.result, other |-> out.other,
               result |-> PossessionAdd(out.result, out.other)]
    /\ UNCHANGED <<live, arg>>

\* result - other, on a time parsed or added.
SubPoss ==
    /\ out.op \in {"parse", "add"}
    /\ out' = [op |-> "sub", self |-> out.result, other |-> out.other,
               result |-> PossessionSub(out.result, out.other)]
    /\ UNCHANGED <<live, arg>>

SpecPoss ==
    InitCall([op : {"pos_time"}, a : PossClocks, b : PossClocks])
    /\ [][ParsePoss \/ AddPoss \/ SubPoss]_vars

\* C20: a subtraction fails when other is more time than self, and else
\* returns the time of the seconds of self less those of other; no time
\* parsed, added or subtracted has negative minutes or seconds.
C20_SubtractNeverNegative ==
    /\ out.op = "sub" =>
          IF total_seconds(out.other) > total_seconds(out.self)
          THEN out.result = [error |-> "AssertionError"]
          ELSE /\ IsTime(out.result)
               /\ total_seconds(out.result) = total_seconds(out.self) - total_seconds(out.other)
    /\ (out.op \in {"parse", "add", "sub"} /\ IsTime(out.result)) =>
          (out.result.minutes >= 0 /\ out.result.seconds >= 0)

-----------------------------------------------------------------------------
\* Addition of player statistics: Player.__add__ of nflgame/player.py and
\* GenPlayerStats.__add__ of nflgame/seq.py.

\* A player's statistics are grouped by category; each category is a map
\* from statistic to value.
Categories == {"passing", "rushing"}

\* The statistics a player can hold: any subset of the categories, passing
\* with any statistics and rushing with one.
PlayerStats ==
    UNION {{[c \in cs |-> f[c]] :
              f \in [passing : UNION {[ks -> StatValues] : ks \in (SUBSET StatNames) \ {{}}},
                     rushing : {[k \in {"yds"} |-> 1]}]} :
           cs \in SUBSET Categories}

\* Player(playerid, name, home): one game, no statistics until _add_stats.
Player(playerid, stats) == [playerid |-> playerid, games |-> 1, stats |-> stats]

IsPlayer(p) == DOMAIN p = {"playerid", "games", "stats"}

\* Player.__add__: the two players are the same human, else the assertion
\* fails. The statistics of self are copied; a category only player has is
\* copied too; in a category both have, each statistic of player is added
\* with += to the one copied from self, a KeyError when self has none.
player_add(self, player) ==
    IF self.playerid # player.playerid THEN [error |-> "AssertionError"]
    ELSE LET stats1 == self.stats
             stats2 == player.stats
             both == DOMAIN stats1 \cap DOMAIN stats2
         IN  IF \E c \in both : \E k \in DOMAIN stats2[c] : k \notin DOMAIN stats1[c]
             THEN [error |-> "KeyError"]
             ELSE [playerid |-> self.playerid,
                   games |-> self.games + player.games,
                   stats |-> [c \in DOMAIN stats1 \cup DOMAIN stats2 |->
                        IF c \notin DOMAIN stats1 THEN stats2[c]
                        ELSE IF c \notin DOMAIN stats2 THEN stats1[c]
                        ELSE [k \in DOMAIN stats1[c] |->
                                 stats1[c][k] + (IF k \in DOMAIN stats2[c]
                                                 THEN stats2[c][k] ELSE 0)]]]

\* self + player where an operand may be an addition that raised.
Plus(self, player) ==
    IF ~IsPlayer(self) THEN self
    ELSE IF ~IsPlayer(player) THEN player
    ELSE player_add(self, player)

\* The loop of GenPlayerStats.__add__ over the players chained: the first
\* player of an id is put in the ordered dictionary, a later one is added
\* to the one there with +=.
RECURSIVE Combine(_, _)
Combine(chain, players) ==
    IF chain = <<>> THEN players
    ELSE LET p == Head(chain)
             i == IF \E n \in 1..Len(players) : players[n].playerid = p.playerid
                  THEN CHOOSE n \in 1..Len(players) : players[n].playerid = p.playerid
                  ELSE 0
         IN  IF i = 0 THEN Combine(Tail(chain), Append(players, p))
             ELSE IF ~IsPlayer(player_add(players[i], p)) THEN player_add(players[i], p)
             ELSE Combine(Tail(chain), [players EXCEPT ![i] = player_add(players[i], p)])

\* GenPlayerStats.__add__: a sequence is the values of its dictionary.
gen_add(self, other) == Combine(self \o other, <<>>)

\* nflgame.NoPlayers, the sequence of no players.
NoPlayers == <<>>

\* The statistics the sequences are made of.
FewStats ==
    {s \in PlayerStats : \A c \in DOMAIN s : \A k \in DOMAIN s[c] : s[c][k] = 1}

\* Sequences of players of distinct ids, as a dictionary by id gives them.
PlayerSeqs ==
    {NoPlayers}
    \cup {<<Player(i, s)>> : i \in PlayerIds, s \in FewStats}
    \cup {<<Player("a", s), Player("b", t)>> : s \in {[passing |-> [yds |-> 1]]}, t \in FewStats}

\* a + b.
AddPlayers ==
    /\ arg.op = "add"
    /\ out = NoCall
    /\ out' = [op |-> "a+b", sum |-> Plus(arg.a, arg.b)]
    /\ UNCHANGED <<live, arg>>

\* b + a.
AddSwapped ==
    /\ arg.op = "add"
    /\ out = NoCall
    /\ out' = [op |-> "b+a", sum |-> Plus(arg.b, arg.a)]
    /\ UNCHANGED <<live, arg>>

\* (a + b) + c.
AddLeft ==
    /\ out.op = "a+b"
    /\ out' = [op |-> "(a+b)+c", sum |-> Plus(out.sum, arg.c)]
    /\ UNCHANGED <<live, arg>>

\* a + (b + c).
AddRight ==
    /\ arg.op = "add"
    /\ out = NoCall
    /\ out' = [op |-> "a+(b+c)", sum |-> Plus(arg.a, Plus(arg.b, arg.c))]
    /\ UNCHANGED <<live, arg>>

\* Two sequences of players added.
AddSeqs ==
    /\ arg.op = "gen_add"
    /\ out = NoCall
    /\ out' = [op |-> "gen_add", sum |-> gen_add(arg.a, arg.b)]
    /\ UNCHANGED <<live, arg>>

\* Three players of one id, two players of different ids, and two sequences
\* of players.
SpecAdd ==
    /\ InitCall([op : {"add"}, a : {Player("a", s) : s \in PlayerStats},
                 b : {Player("a", s) : s \in PlayerStats},
                 c : {Player("a", s) : s \in PlayerStats}]
                \cup [op : {"add"}, a : {Player("a", s) : s \in FewStats},
                      b : {Player("b", s) : s \in FewStats},
                      c : {Player("a", <<>>)}]
                \cup [op : {"gen_add"}, a : PlayerSeqs, b : PlayerSeqs, c : {NoPlayers}])
    /\ [][AddPlayers \/ AddSwapped \/ AddLeft \/ AddRight \/ AddSeqs]_vars

\* The value of a statistic of a player, 0 when the player has none.
StatOf(p, c, k) ==
    IF c \in DOMAIN p.stats /\ k \in DOMAIN p.stats[c] THEN p.stats[c][k] ELSE 0

HasStat(p, c, k) == c \in DOMAIN p.stats /\ k \in DOMAIN p.stats[c]

\* sum holds exactly the statistics of the operands, each the sum of theirs.
SumsOf(sum, operands) ==
    /\ IsPlayer(sum)
    /\ \A c \in Categories : \A k \in StatNames :
          /\ HasStat(sum, c, k) <=> \E p \in operands : HasStat(p, c, k)
          /\ StatOf(sum, c, k) = StatOf(arg.a, c, k)
                + (IF arg.b \in operands THEN StatOf(arg.b, c, k) ELSE 0)
                + (IF out.op \in {"(a+b)+c", "a+(b+c)"} THEN StatOf(arg.c, c, k) ELSE 0)

\* C21: players of different ids do not add; players of one id add to the
\* per-statistic sums in either order and in either grouping, a statistic
\* only one operand has keeping its value; a sequence added to NoPlayers
\* keeps its players and their statistics.
C21_AddIsCommutativeMonoid ==
    /\ out.op \in {"a+b", "b+a"} =>
          IF arg.a.playerid # arg.b.playerid
          THEN out.sum = [error |-> "AssertionError"]
          ELSE SumsOf(out.sum, {arg.a, arg.b})
    /\ (out.op \in {"(a+b)+c", "a+(b+c)"} /\ arg.a.playerid = arg.b.playerid) =>
          SumsOf(out.sum, {arg.a, arg.b, arg.c})
    /\ (out.op = "gen_add" /\ arg.b = NoPlayers) => out.sum = arg.a
    /\ (out.op = "gen_add" /\ arg.a = NoPlayers) => out.sum = arg.b

-----------------------------------------------------------------------------
\* Game.__new__ on the text of a payload.

\* The texts a payload can be, with or without white space around them:
\* nothing, an empty object written two ways, no JSON at all, and a JSON
\* object that is not empty, with at most one event in it; its keys are event
\* ids and 'nextupdate', whose value is a number.
Bodies ==
    [text : {"", "{}", "{ }", "<html>"}]
    \cup [json : UNION {[ks -> {"value"}] : ks \in {{"e1"}, {"e2"}, {"nextupdate"},
                                                   {"e1", "nextupdate"},
                                                   {"e2", "nextupdate"}}}]

\* json.loads(rawData): the object, an object of no keys for an empty one
\* written either way, ValueError for text that is not JSON.
json_loads(rawData) ==
    IF "json" \in DOMAIN rawData.body THEN rawData.body.json
    ELSE IF rawData.body.text \in {"{}", "{ }"} THEN <<>>
    ELSE [error |-> "ValueError"]

\* Game.__new__(cls, eid, fpath): None when there is no data (data.fetch is
\* "None" after an HTTP error or a timeout, "URLError" when that is raised),
\* when the text read, stripped, is '{}' and when json.loads raises
\* ValueError; with an eid the
\* game's data is json.loads(rawData)[eid], without one it is the first value
\* that is a dictionary, and the assertion fails when there is none.
GameNew(eid, data) ==
    IF data.fetch \in {"None", "URLError"} THEN None
    ELSE IF data.body = [text |-> "{}"] THEN None
    ELSE LET loaded == json_loads(data) IN
         IF loaded = [error |-> "ValueError"] THEN None
         ELSE IF eid # "None"
              THEN IF eid \in DOMAIN loaded
                   THEN [eid |-> eid, data |-> loaded[eid]]
                   ELSE [error |-> "KeyError"]
              ELSE IF \E k \in DOMAIN loaded : k # "nextupdate"
                   THEN LET k == CHOOSE x \in DOMAIN loaded : x # "nextupdate"
                        IN  [eid |-> k, data |-> loaded[k]]
                   ELSE [error |-> "AssertionError"]

\* Game(eid) or Game(fpath=...) on what _get_json_data gives.
CallGame ==
    /\ arg.op = "Game"
    /\ out = NoCall
    /\ out' = [op |-> "Game", game |-> GameNew(arg.eid, arg.data)]
    /\ UNCHANGED <<live, arg>>

SpecNew ==
    InitCall([op : {"Game"}, eid : {"e1", "e2", "None"},
              data : {[fetch |-> "None"], [fetch |-> "URLError"]}
                     \cup [fetch : {"read"}, pad : BOOLEAN, body : Bodies]])
    /\ [][CallGame]_vars

\* The payload read is empty: no text, or an object of no keys.
EmptyFeed(data) ==
    /\ data.fetch = "read"
    /\ data.body \in [text : {"", "{}", "{ }"}]

\* The payload read is an object that lacks the event id asked for.
UnknownEventId(eid, data) ==
    /\ data.fetch = "read"
    /\ "json" \in DOMAIN data.body
    /\ eid \notin DOMAIN data.body.json

\* C22: Game(eid) on an empty payload, on an empty JSON object and on a
\* payload without the event id gives None, the outcome its callers skip:
\* neither a game nor an exception.
C22_NoGameFromEmptyOrUnknown ==
    (out.op = "Game" /\ arg.eid # "None"
        /\ (EmptyFeed(arg.data) \/ UnknownEventId(arg.eid, arg.data)))
    => out.game = None

-----------------------------------------------------------------------------
\* The cache on disk over a sequence of Game(eid) constructions.

\* _get_json_data, lines 795-799: the file of the event when it is readable,
\* the site otherwise.
Source(eid, ch) == IF eid \in ch THEN "disk" ELSE "site"

\* Game(e): the data is read from the cache or downloaded and, when the game
\* made is over and has no readable file, Game.save writes the data; a cache
\* directory that is not writable leaves no file (IOError, lines 338-343).
Construct ==
    /\ arg.op = "cache"
    /\ \E e \in Eids : \E res \in Downloads({e}, feed) : \E writable \in BOOLEAN :
         LET game == Game(e, res[e], feed, cache)
             made == {game} \ {None, Raised}
             saved == IF writable THEN SaveIfOver(made, cache) ELSE cache
         IN  /\ cache' = saved
             /\ feed' = Downloaded({e}, res, feed, cache)
             /\ out' = [op |-> "cache", eid |-> e, source |-> Source(e, cache),
                        game |-> game,
                        cached |-> cache,
                        before |-> out.final,
                        final |-> out.final \cup {g.eid : g \in {x \in made : game_over(x)}},
                        disk |-> [x \in Eids |->
                                    IF x \in saved \ cache
                                    THEN [qtr |-> game.qtr, plays |-> game.plays]
                                    ELSE out.disk[x]]]
    /\ UNCHANGED <<now, sched, stop, status, active, cur, last_week_check,
                   completed, last, tick, hist, arg>>

\* At the start nothing has been constructed: no file written, no event
\* seen Final.
InitCache ==
    /\ LiveOff
    /\ arg = [op |-> "cache"]
    /\ out = [op |-> "cache", eid |-> "None", source |-> "none", game |-> None,
              cached |-> {}, before |-> {}, final |-> {},
              disk |-> [e \in Eids |-> [qtr |-> "none", plays |-> {}]]]

SpecCache == InitCache /\ [][Construct]_vars

\* C23: every file of the cache holds a Final payload and is of an event a
\* construction found Final; a construction of an event none has found Final
\* yet goes to the site; a construction of an event with a readable file is
\* served the file.
C23_CacheHoldsOnlyFinal ==
    /\ \A e \in cache : is_final(out.disk[e].qtr) /\ e \in out.final
    /\ out.eid \in Eids =>
          /\ out.eid \notin out.before => out.source = "site"
          /\ out.eid \in out.cached =>
                /\ out.source = "disk"
                /\ out.game = [eid |-> out.eid, qtr |-> out.disk[out.eid].qtr,
                               plays |-> out.disk[out.eid].plays]

\* An event that is cached is constructed once more.
C23_Witness ==
    /\ out.eid \in out.cached
    /\ out.source = "disk"
    /\ \E e \in Eids : e \notin cache /\ e \in out.final

-----------------------------------------------------------------------------
\* Drive.__init__ and _json_plays of nflgame/game.py.

\* int(playid), of the ids "9" and "10" of the plays of one drive; as text
\* "10" sorts before "9".
PlayNumber(playid) == CASE playid = "9" -> 9 [] playid = "10" -> 10

\* str(pid).
PlayIdOf(n) == CASE n = 9 -> "9" [] n = 10 -> "10"

\* str(n) of a quarter number.
QuarterStr(n) ==
    CASE n = 0 -> "0" [] n = 1 -> "1" [] n = 2 -> "2" [] n = 3 -> "3" [] n = 4 -> "4"
      [] n = 5 -> "5"

\* max of a list of integers.
MaxOf(S) == CHOOSE x \in S : \A y \in S : y <= x

\* sorted(..., reverse=True).
Reversed(s) == [i \in 1..Len(s) |-> s[Len(s) + 1 - i]]

\* The play ids in the order of their text, the greatest first.
TextDescending(ids) == IF ids = {9, 10} THEN <<9, 10>> ELSE Reversed(Sorted(ids))

\* sorted(map(int, data['plays'].keys()), reverse=True), line 493.
Descending(ids) == Reversed(Sorted(ids))

\* Drive.__init__, lines 490-500: field_end.
RECURSIVE LastYardline(_, _, _)
LastYardline(team, playids, plays) ==
    IF playids = <<>> THEN FieldPosition(team, Text(<<Digits(50)>>), None)
    ELSE LET yrdln == plays[PlayIdOf(Head(playids))].yrdln
         IN  IF yrdln # Text(<<>>) THEN FieldPosition(team, yrdln, None)
             ELSE LastYardline(team, Tail(playids), plays)

field_end(team, data) ==
    IF data.end.yrdln # Text(<<>>) THEN FieldPosition(team, data.end.yrdln, None)
    ELSE LastYardline(team, Descending({PlayNumber(k) : k \in DOMAIN data.plays}),
                      data.plays)

\* GameClock.quarter's setter with an integer, lines 176-180.
quarter_set(self, value) ==
    IF ~(value >= 0 /\ value <= 4) THEN [error |-> "AssertionError"]
    ELSE [self EXCEPT !.qtr = QuarterStr(value), !.quarter = value]

\* Drive.__init__, lines 507-518: time_end is of the greatest quarter of the
\* plays, and its quarter is bumped when it is not after time_start and
\* its quarter property is 1 or 3.
time_end(data) ==
    LET qtrs == {QuarterNumber(data.plays[k].qtr) : k \in DOMAIN data.plays}
        maxq == QuarterStr(MaxOf(qtrs))
        end == GameClock(maxq, data.end.time)
        start == GameClock(data.start.qtr, data.start.time)
    IN  IF GameClockCmp(end, start) <= 0 /\ end.quarter \in {1, 3}
        THEN quarter_set(end, end.quarter + 1)
        ELSE end

\* Play.__init__, lines 565-582, of a play with a team.
Play(team, playid, data) ==
    [playid |-> playid, desc |-> data.desc,
     time |-> GameClock(data.qtr, data.time),
     yardline |-> FieldPosition(team, data.yrdln, None)]

\* A play that is only skipped when its id has been seen.
SkipSeenId(playid, desc, seen_ids, seen_desc) == playid \in seen_ids

\* _json_plays, line 695.
Skip(playid, desc, seen_ids, seen_desc) == playid \in seen_ids \/ desc \in seen_desc

\* _json_plays, lines 692-698: the loop from the i-th play id on.
RECURSIVE PlaysFrom(_, _, _, _, _, _)
PlaysFrom(team, playids, i, data, seen_ids, seen_desc) ==
    IF i > Len(playids) THEN <<>>
    ELSE LET playid == PlayIdOf(playids[i])
             p == data[playid]
             desc == <<p.desc, p.time, p.yrdln, p.qtr>>
         IN  IF Skip(playid, desc, seen_ids, seen_desc)
             THEN PlaysFrom(team, playids, i + 1, data, seen_ids, seen_desc)
             ELSE <<Play(team, playid, p)>>
                  \o PlaysFrom(team, playids, i + 1, data,
                               seen_ids \cup {playid}, seen_desc \cup {desc})

\* _json_plays(drive, data).
json_plays(team, data) ==
    PlaysFrom(team, Sorted({PlayNumber(k) : k \in DOMAIN data}), 1, data, {}, {})

\* Drive.__init__; a drive without plays gets no attributes.
Drive(data) ==
    IF DOMAIN data.plays = {} THEN [valid |-> FALSE]
    ELSE [valid |-> TRUE,
          team |-> data.posteam,
          field_start |-> FieldPosition(data.posteam, data.start.yrdln, None),
          time_start |-> GameClock(data.start.qtr, data.start.time),
          field_end |-> field_end(data.posteam, data),
          time_end |-> time_end(data),
          plays |-> json_plays(data.posteam, data.plays)]

Own25 == Text(<<Word("NE"), Digits(25)>>)

Opp45 == Text(<<Word("NYG"), Digits(45)>>)

Blank == Text(<<>>)

\* The plays of a drive: one play for each id of a set of ids.
PlaysOf(records) == UNION {[ids -> records] : ids \in SUBSET {"9", "10"}}

\* Drive(game, drive_num, home_team, data), as _json_drives calls it.
CallDrive ==
    /\ arg.op = "Drive"
    /\ out = NoCall
    /\ out' = [op |-> "Drive", drive |-> Drive(arg.data)]
    /\ UNCHANGED <<live, arg>>

\* Drives whose plays and start and end differ in quarter and time, drives
\* whose plays and end differ in yard line, and drives whose plays differ in
\* every part of the key of a play.
SpecDrive ==
    InitCall(
        {[op |-> "Drive", data |-> d] : d \in
            [posteam : {"NE"},
             start : [qtr : {"1", "2", "3", "4"}, time : {"15:00", "0:05"}, yrdln : {Own25}],
             end : [time : {"15:00", "0:05"}, yrdln : {Opp45}],
             plays : PlaysOf([desc : {"run"}, time : {"10:00"}, yrdln : {Own25},
                              qtr : {"1", "2", "3", "4"}])]
            \cup
            [posteam : {"NE"},
             start : [qtr : {"1"}, time : {"15:00"}, yrdln : {Own25}],
             end : [time : {"0:05"}, yrdln : {Blank, Own25, Opp45}],
             plays : PlaysOf([desc : {"run", "pass"}, time : {"10:00"},
                              yrdln : {Blank, Own25, Opp45}, qtr : {"1"}])]
            \cup
            [posteam : {"NE"},
             start : [qtr : {"1"}, time : {"15:00"}, yrdln : {Own25}],
             end : [time : {"0:05"}, yrdln : {Opp45}],
             plays : PlaysOf([desc : {"run", "pass"}, time : {"10:00", "9:59"},
                              yrdln : {Own25, Opp45}, qtr : {"1", "2"}])]})
    /\ [][CallDrive]_vars

\* The greatest quarter of the plays of the drive.
MaxQuarter(data) == MaxOf({QuarterNumber(data.plays[k].qtr) : k \in DOMAIN data.plays})

\* The end of the drive as computed, in that quarter, is not later than its
\* start.
EndNotLater(data) ==
    ~Earlier([qtr |-> data.start.qtr, clock |-> data.start.time],
             [qtr |-> QuarterStr(MaxQuarter(data)), clock |-> data.end.time])

\* C25: the end of a drive is in the greatest quarter of its plays, or in the
\* next one when that quarter is the first or the third and the end in it
\* is not later than the start of the drive.
C25_EndQuarterRepair ==
    (out.op = "Drive" /\ out.drive.valid) =>
        out.drive.time_end.qtr =
            IF EndNotLater(arg.data) /\ MaxQuarter(arg.data) \in {1, 3}
            THEN QuarterStr(MaxQuarter(arg.data) + 1)
            ELSE QuarterStr(MaxQuarter(arg.data))

\* The key of a play of the drive: description, clock, yard line, quarter.
PlayKey(data, playid) ==
    <<data.plays[playid].desc, data.plays[playid].time, data.plays[playid].yrdln,
      data.plays[playid].qtr>>

\* C26: the plays of a drive are in ascending order of the numbers of their
\* ids, no two of them have the same key, each is made of the data of its
\* id, and a play of the data is left out exactly when a play of a smaller
\* id has its key.
C26_PlaysDedupedInIdOrder ==
    (out.op = "Drive" /\ out.drive.valid) =>
        LET plays == out.drive.plays
            kept == {plays[i].playid : i \in 1..Len(plays)}
        IN  /\ \A i, j \in 1..Len(plays) :
                  i < j => /\ PlayNumber(plays[i].playid) < PlayNumber(plays[j].playid)
                           /\ PlayKey(arg.data, plays[i].playid)
                                 # PlayKey(arg.data, plays[j].playid)
            /\ \A i \in 1..Len(plays) :
                  /\ plays[i].playid \in DOMAIN arg.data.plays
                  /\ plays[i].desc = arg.data.plays[plays[i].playid].desc
            /\ \A k \in DOMAIN arg.data.plays :
                  k \notin kept <=>
                     \E l \in DOMAIN arg.data.plays :
                        /\ PlayNumber(l) < PlayNumber(k)
                        /\ PlayKey(arg.data, l) = PlayKey(arg.data, k)

\* C26's case: of two plays with one key the play "9" is kept and the play
\* "10" is left out.
C26_Witness ==
    /\ out.op = "Drive" /\ out.drive.valid
    /\ DOMAIN arg.data.plays = {"9", "10"}
    /\ PlayKey(arg.data, "9") = PlayKey(arg.data, "10")
    /\ Len(out.drive.plays) = 1
    /\ out.drive.plays[1].playid = "9"

\* The ids of the plays of the drive that report a yard line.
Reporting(data) == {k \in DOMAIN data.plays : data.plays[k].yrdln # Blank}

\* C27: a drive has an end position: that of the end yard line of its data
\* when this is not blank, else that of the yard line of the play of the
\* greatest id among the plays that report one, else midfield.
C27_EndFieldPositionRepair ==
    (out.op = "Drive" /\ out.drive.valid) =>
        /\ IsPosition(out.drive.field_end)
        /\ out.drive.field_end =
              IF arg.data.end.yrdln # Blank
              THEN FieldPosition(arg.data.posteam, arg.data.end.yrdln, None)
              ELSE IF Reporting(arg.data) # {}
              THEN LET top == CHOOSE k \in Reporting(arg.data) :
                                  \A l \in Reporting(arg.data) : PlayNumber(l) <= PlayNumber(k)
                   IN  FieldPosition(arg.data.posteam, arg.data.plays[top].yrdln, None)
              ELSE [offset |-> 0]

\* C27's case: the end yard line is blank and the plays "9" and "10" report
\* different yard lines; the end position is that of play "10".
C27_Witness ==
    /\ out.op = "Drive" /\ out.drive.valid
    /\ arg.data.end.yrdln = Blank
    /\ DOMAIN arg.data.plays = {"9", "10"}
    /\ arg.data.plays["9"].yrdln = Own25
    /\ arg.data.plays["10"].yrdln = Opp45
    /\ out.drive.field_end = [offset |-> 5]

-----------------------------------------------------------------------------
\* GameClock built from any qtr of the feed, then read and compared.

\* GameClock(qtr, clock), twice.
NewClock ==
    /\ arg.op = "GameClock"
    /\ out = NoCall
    /\ out' = [op |-> "GameClock", self |-> GameClock(arg.a.qtr, arg.a.clock),
               other |-> GameClock(arg.b.qtr, arg.b.clock)]
    /\ UNCHANGED <<live, arg>>

\* The quarter property, lines 172-174: __qtr, AttributeError when unset.
quarter(self) ==
    IF self.quarter = Unset THEN [error |-> "AttributeError"] ELSE Int_(self.quarter)

\* self.quarter.
ReadQuarter ==
    /\ out.op = "GameClock"
    /\ out' = [op |-> "quarter", self |-> out.self, other |-> out.other,
               result |-> quarter(out.self)]
    /\ UNCHANGED <<live, arg>>

\* cmp(self, other), with __cmp__ reading __qtr of both.
Compare ==
    /\ out.op = "GameClock"
    /\ out' = [op |-> "compare", self |-> out.self, other |-> out.other,
               result |-> IF IsInt(quarter(out.self)) /\ IsInt(quarter(out.other))
                          THEN Int_(GameClockCmp(out.self, out.other))
                          ELSE [error |-> "AttributeError"]]
    /\ UNCHANGED <<live, arg>>

SpecNewClock ==
    InitCall([op : {"GameClock"}, a : [qtr : Quarters, clock : Clocks],
                                  b : [qtr : Quarters, clock : {"10:00"}]])
    /\ [][NewClock \/ ReadQuarter \/ Compare]_vars

\* C29: the quarter of a clock built from any qtr is a number, and the
\* comparison of two such clocks gives -1, 0 or 1.
C29_EveryClockHasRank ==
    /\ out.op = "quarter" => IsInt(out.result)
    /\ out.op = "compare" => (IsInt(out.result) /\ out.result.int \in {-1, 0, 1})

-----------------------------------------------------------------------------
\* The week numbers of nflgame/update_sched.py and of the live poller.

\* year_phase_week, lines 16-20: the weeks of each season type.
SeasonWeeks(stype) ==
    CASE stype = "PRE" -> 0..4
      [] stype = "REG" -> 1..17
      [] stype = "POST" -> 1..4

\* schedule_url, lines 40-44: the week asked of the scorestrip.
url_week(stype, week) ==
    IF stype = "POST"
    THEN IF week + 17 = 21 THEN week + 17 + 1 ELSE week + 17
    ELSE week

\* schedule_url(year, stype, week).
ScheduleUrl ==
    /\ arg.op = "week"
    /\ out = NoCall
    /\ out' = [op |-> "schedule_url", season |-> arg.year, seasonType |-> arg.stype,
               week |-> url_week(arg.stype, arg.week)]
    /\ UNCHANGED <<live, arg>>

\* week_schedule and update_week, lines 63-76 and 92-99: the games of the
\* scorestrip of the url are stored with the week given, not that of the url.
UpdateWeek ==
    /\ out.op = "schedule_url"
    /\ out' = [op |-> "update_week", week |-> out.week,
               sched |-> [e \in Eids |->
                            [start |-> 900, week |-> arg.week, kind |-> arg.stype]]]
    /\ UNCHANGED <<live, arg>>

\* _update_week_number while the scorestrip is of that week, its attribute t
\* being 'P', 'R' or 'POST', then _games_in_week of the week and phase set.
UpdateWeekNumber ==
    /\ out.op = "update_week"
    /\ LET t == CASE arg.stype = "PRE" -> "P" [] arg.stype = "REG" -> "R"
                    [] arg.stype = "POST" -> "POST"
           window == update_week_number([w |-> out.week, t |-> t])
       IN  out' = [op |-> "_update_week_number", cur |-> window,
                   games |-> games_in_week(out.sched, window)]
    /\ UNCHANGED <<live, arg>>

\* The seasons 2009 and 2010, each with the weeks of its three types.
SpecWeek ==
    InitCall(UNION {[op : {"week"}, year : {2009, 2010}, stype : {t}, week : SeasonWeeks(t)] :
                       t \in {"PRE", "REG", "POST"}})
    /\ [][ScheduleUrl \/ UpdateWeek \/ UpdateWeekNumber]_vars

\* C30: for a post-season week stored by update_sched, the week the poller
\* makes of the week of the url is the week stored, and the games the poller
\* finds for its week and phase are the games stored for that week.
C30_PostSeasonWeeksAgree ==
    (out.op = "_update_week_number" /\ arg.stype = "POST") =>
        /\ out.cur = [week |-> arg.week, kind |-> "POST"]
        /\ out.games = Eids

====
